---- MODULE Spec2Model ----
(***************************************************************************)
(* Simply-AI Home Edition: session enforcement (app/__init__.py,           *)
(* routes/auth.py, models/user.py), chat turns and their SSE streams       *)
(* (routes/chat.py, services/ai_service.py) and the RAG document pipeline  *)
(* (services/rag_service.py, services/vector_store.py, models/document.py).*)
(*                                                                         *)
(* The specifications share the variables:                                 *)
(*   SpecAuth     login / logout / before_request token validation         *)
(*   SpecChat     chat turns and their streams, deletion of chats          *)
(*   SpecManage   history / export / rename / delete of stored chats       *)
(*   SpecDocs     upload / process / reprocess / delete of documents       *)
(*   SpecUpload   concurrent uploads, split at the quota check             *)
(*   SpecStream   one provider stream driven by its consumer               *)
(*   SpecAdmin    deletion of users and documents, with store faults       *)
(*   SpecRetrieve retrieval of document context for chat turns             *)
(*   SpecFilter, SpecSettings, SpecChunker: the sensitive-text filter,     *)
(*   the typed admin settings and the chunker, each on bounded inputs      *)
(* A handler that commits more than once is split at its commits, because  *)
(* the Flask server is threaded and other requests see the committed state.*)
(***************************************************************************)
EXTENDS Integers, Sequences, FiniteSets, TLC

\* ------------------------------------------------------------------ bounds
MaxTokens == 3      \* successful logins explored (fresh tokens issued)
MaxMsgs == 3        \* Message rows one chat holds
MaxDeltas == 1      \* content deltas one provider stream yields
MaxDocs == 2        \* documents ever uploaded
MaxRuns == 2        \* process_document runs ever started
MaxChunks == 1      \* chunks one process run produces
rag_max_documents_per_user == 1   \* admin setting, default 50

\* ------------------------------------------------------------------ domains
Users == {1, 2}
Devices == {"devA", "devB"}
NoUser == 0
NoToken == 0
Tokens == 1..MaxTokens

VARIABLES
    session_token,   \* User.session_token per user (NoToken = NULL)
    cookie,          \* per device: Flask session {_user_id, session_token}
    nextToken,       \* freshness of secrets.token_hex
    issued,          \* history: tokens issued to each user, in order
    lastAuth,        \* history: last successful auth operation per user
    resp,            \* the last HTTP response of the auth/session layer
    chats,           \* Chat rows by session_id (with their Message rows)
    turns,           \* chat turns: handler result and generate() position
    nextChat,        \* freshness of uuid4 session ids
    chatResp,        \* the last response of a chat endpoint
    stream,          \* one provider stream, driven on its own
    documents,       \* Document rows by id
    chunkRows,       \* DocumentChunk rows
    vectors,         \* ChromaDB collection per user: set of stored vectors
    files,           \* stored files under uploads/rag_documents
    runs,            \* process_document runs
    docResp,         \* the response of a document endpoint, until delivered
    nextDoc,         \* Document primary key sequence
    accounts,        \* User rows: the ids of the existing accounts
    attachment_files, \* session ids of the chats whose attachment files are on disk
    redaction,       \* a text and what SensitiveInfoFilter made of it
    settings,        \* AdminSettings rows by setting_key
    settingResp,     \* the last call of set_setting / get_setting and its result
    chunking,        \* a chunk_document call: its arguments and its result
    retrieval        \* the embedding set-up and the last RAG retrieval of a chat turn

authVars == <<session_token, cookie, nextToken, issued, lastAuth, resp>>
chatVars == <<chats, turns, nextChat, chatResp, stream>>
docVars == <<documents, chunkRows, vectors, files, runs, docResp, nextDoc>>
adminVars == <<accounts, attachment_files>>
svcVars == <<redaction, settings, settingResp, chunking, retrieval>>
vars == <<authVars, chatVars, docVars, adminVars, svcVars>>

\* =====================================================================
\* Session enforcement
\* =====================================================================

\* Endpoints a request can name.  blueprint "auth" gives endpoint names that
\* start with 'auth.'; json_or_api is request.is_json or a path under /api/.
Endpoints ==
    { [name |-> "chat.chat", blueprint |-> "chat", json_or_api |-> TRUE, login_required |-> TRUE],
      [name |-> "main.index", blueprint |-> "main", json_or_api |-> FALSE, login_required |-> TRUE],
      [name |-> "auth.get_current_user", blueprint |-> "auth", json_or_api |-> FALSE, login_required |-> TRUE],
      [name |-> "auth.change_password", blueprint |-> "auth", json_or_api |-> TRUE, login_required |-> TRUE],
      [name |-> "static", blueprint |-> "", json_or_api |-> FALSE, login_required |-> FALSE] }

NoCookie == [user_id |-> NoUser, session_token |-> NoToken]

\* User.generate_session_token: a new token nobody holds.
WrongGenerateSessionToken(u) == IF session_token[u] # NoToken THEN session_token[u] ELSE nextToken

generate_session_token(u) == nextToken

\* User.validate_session_token
validate_session_token(u, token) ==
    IF session_token[u] = NoToken \/ token = NoToken
    THEN FALSE
    ELSE session_token[u] = token

\* User.invalidate_session
invalidate_session(u) == [session_token EXCEPT ![u] = NoToken]

\* POST /auth/login, the path that completes a login (credentials verified,
\* account active and unlocked, no 2FA); any other outcome returns before
\* touching the token and is the 401/403 branch.
login(d, u, credentialsOk) ==
    /\ nextToken <= MaxTokens
    /\ IF credentialsOk
       THEN LET t == generate_session_token(u) IN
            /\ session_token' = [session_token EXCEPT ![u] = t]
            /\ cookie' = [cookie EXCEPT ![d] = [user_id |-> u, session_token |-> t]]
            /\ nextToken' = nextToken + 1
            /\ issued' = [issued EXCEPT ![u] = Append(@, t)]
            /\ lastAuth' = [lastAuth EXCEPT ![u] = "login"]
            /\ resp' = [kind |-> "login", dev |-> d, user |-> u, endpoint |-> "auth.login",
                        cookieToken |-> cookie[d].session_token, storedToken |-> session_token[u],
                        login_required |-> FALSE, json_or_api |-> TRUE, outcome |-> "200"]
       ELSE /\ resp' = [kind |-> "login", dev |-> d, user |-> u, endpoint |-> "auth.login",
                        cookieToken |-> cookie[d].session_token, storedToken |-> session_token[u],
                        login_required |-> FALSE, json_or_api |-> TRUE, outcome |-> "401"]
            /\ UNCHANGED <<session_token, cookie, nextToken, issued, lastAuth>>
    /\ UNCHANGED <<chatVars, docVars, adminVars, svcVars>>

\* POST /auth/logout (@login_required; before_request skips 'auth.' endpoints)
logout(d) ==
    LET u == cookie[d].user_id IN
    /\ IF u # NoUser
       THEN /\ session_token' = invalidate_session(u)
            /\ cookie' = [cookie EXCEPT ![d] = NoCookie]
            /\ lastAuth' = [lastAuth EXCEPT ![u] = "logout"]
            /\ resp' = [kind |-> "logout", dev |-> d, user |-> u, endpoint |-> "auth.logout",
                        cookieToken |-> cookie[d].session_token, storedToken |-> session_token[u],
                        login_required |-> TRUE, json_or_api |-> TRUE, outcome |-> "200"]
       ELSE /\ resp' = [kind |-> "logout", dev |-> d, user |-> u, endpoint |-> "auth.logout",
                        cookieToken |-> NoToken, storedToken |-> NoToken,
                        login_required |-> TRUE, json_or_api |-> TRUE, outcome |-> "login_required"]
            /\ UNCHANGED <<session_token, cookie, lastAuth>>
    /\ UNCHANGED <<nextToken, issued, chatVars, docVars, adminVars, svcVars>>

\* The before_request hook: "pass" lets the request go on to its view,
\* otherwise the response the hook returns.
before_request(d, ep) ==
    LET c == cookie[d] IN
    IF c.user_id = NoUser THEN "pass"
    ELSE IF ep.blueprint = "auth" \/ ep.name = "static" THEN "pass"
    ELSE IF validate_session_token(c.user_id, c.session_token) THEN "pass"
    ELSE IF ep.json_or_api THEN "401_SESSION_INVALIDATED"
    ELSE "redirect_login"

\* Any other request: the hook, then @login_required, then the view.
request(d, ep) ==
    LET c == cookie[d]
        gate == before_request(d, ep)
        outcome == IF gate # "pass" THEN gate
                   ELSE IF ep.login_required /\ c.user_id = NoUser THEN "login_required"
                   ELSE "handled"
    IN
    /\ cookie' = IF gate = "pass" THEN cookie ELSE [cookie EXCEPT ![d] = NoCookie]
    /\ resp' = [kind |-> "request", dev |-> d, user |-> c.user_id, endpoint |-> ep.name,
                cookieToken |-> c.session_token,
                storedToken |-> IF c.user_id = NoUser THEN NoToken ELSE session_token[c.user_id],
                login_required |-> ep.login_required, json_or_api |-> ep.json_or_api,
                outcome |-> outcome]
    /\ UNCHANGED <<session_token, nextToken, issued, lastAuth, chatVars, docVars, adminVars, svcVars>>

\* =====================================================================
\* Provider stream adapter (AIService.get_response_stream and the six
\* _get_<provider>_response_stream generators)
\* =====================================================================
Providers == {"gemini", "openai", "anthropic", "xai", "lmstudio", "ollama"}

\* provider names a caller may pass
ProviderNames == Providers \cup {"OpenAI", "lm_studio", "other"}

\* provider.lower(), then 'lm_studio' -> 'lmstudio'
Normalize(p) ==
    LET lower == IF p = "OpenAI" THEN "openai" ELSE p
    IN IF lower = "lm_studio" THEN "lmstudio" ELSE lower

\* The list handed to the provider generator: the age prompt is put in
\* front of the history, then the RAG context in front of that.
InjectSystem(history, rag_context, age_system_prompt) ==
    LET m1 == IF age_system_prompt THEN <<"age_system">> \o history ELSE history
    IN IF rag_context THEN <<"rag_system">> \o m1 ELSE m1

\* providers whose generator starts with the API-key check
NeedsKey(p) == p \in {"gemini", "openai", "anthropic", "xai"}

\* providers whose generator refuses images the model cannot take
ChecksVision(p) == p \in {"openai", "lmstudio", "ollama"}

NewAdapter(p) ==
    [provider |-> Normalize(p), pc |-> "init", events |-> <<>>, full_content |-> 0, posted |-> FALSE]

Emit(a, e) == [a EXCEPT !.events = Append(@, e)]

\* A refused request: the generator yields one error event and returns.
WrongRefuse(a) == [Emit(a, "error") EXCEPT !.pc = "streaming"]

Refuse(a) == [Emit(a, "error") EXCEPT !.pc = "finished"]

\* The last yield of the try block: the done event with the whole content.
WrongFinish(a) == [Emit(Emit(a, "error"), "done") EXCEPT !.pc = "finished"]

Finish(a) == [Emit(a, "done") EXCEPT !.pc = "finished"]

\* Everything one resumption of the generator can do.  key: an API key is
\* configured; blocked: the messages hold images the model may not take.
AdapterNext(a) ==
    IF a.pc = "init"
    THEN IF a.provider \notin Providers
         THEN {Refuse(a)}
         ELSE UNION { IF NeedsKey(a.provider) /\ ~key THEN {Refuse(a)}
                      ELSE IF ChecksVision(a.provider) /\ blocked THEN {Refuse(a)}
                      ELSE { Refuse(a),                             \* error before the request left
                             Refuse([a EXCEPT !.posted = TRUE]),    \* HTTP error, timeout
                             [a EXCEPT !.posted = TRUE, !.pc = "streaming"] }
                      : key \in BOOLEAN, blocked \in BOOLEAN }
    ELSE IF a.pc = "streaming"
    THEN { Finish(a), Refuse(a) }
         \cup (IF a.full_content < MaxDeltas
               THEN { [Emit(a, "content") EXCEPT !.full_content = @ + 1] }
               ELSE {})
    ELSE {}

Terminal(e) == e \in {"done", "error"}

\* =====================================================================
\* Chat turns and chat management (routes/chat.py)
\* =====================================================================
\* the session id (a uuid4 value) the chats of the model carry
SessionIds == {1}
\* the requests to /api/chat the threaded server has in flight at a time
TurnIds == {1, 2}
NoSession == 0
NoChat == [user_id |-> NoUser, name |-> "", messages |-> <<>>, attachments |-> 0]
NoTurn == [pc |-> "none", user |-> NoUser, sid |-> NoSession, chat_owner |-> NoUser,
           adapter |-> NewAdapter("other"), full_response |-> 0, sse |-> <<>>,
           bot_saved |-> FALSE, gone |-> "no"]
TurnFree(t) == turns[t].pc \in {"none", "end", "closed"}
Response(op, u, s, status, returned) ==
    [op |-> op, user |-> u, sid |-> s, status |-> status, returned |-> returned]

ChatExists(s) == s \in SessionIds /\ chats[s].user_id # NoUser

\* The ownership test of get_history, delete_chat, rename_chat, export_chat.
WrongOwns(u, s) == TRUE

Owns(u, s) == chats[s].user_id = u

\* The session lookup of chat(): the row with that session_id, whoever owns it.
ChatLookup(u, s) == ChatExists(s)

FreeTurn == CHOOSE t \in TurnIds : TurnFree(t) /\ \A t2 \in TurnIds : t2 < t => ~TurnFree(t2)

\* providers a chat turn is explored with: a known one and an unknown name
ChatProviders == {"openai", "other"}

\* POST /api/chat up to the point where the streaming Response is returned.
\* s = NoSession asks for a new chat; empty: neither message nor attachments.
chat(u, s, empty, p) ==
    /\ \E t \in TurnIds : TurnFree(t)
    /\ s = NoSession => nextChat \in SessionIds
    /\ ChatExists(s) => Len(chats[s].messages) < MaxMsgs - 1
    /\ IF empty
       THEN /\ chatResp' = Response("chat", u, s, 400, 0)
            /\ UNCHANGED <<chats, turns, nextChat>>
       ELSE IF s # NoSession /\ ~ChatLookup(u, s)
       THEN /\ chatResp' = Response("chat", u, s, 404, 0)
            /\ UNCHANGED <<chats, turns, nextChat>>
       ELSE LET sid == IF s = NoSession THEN nextChat ELSE s
                base == IF s = NoSession
                        THEN [user_id |-> u, name |-> "chat", messages |-> <<>>, attachments |-> 0]
                        ELSE chats[s]
                user_msg == [role |-> "user", by |-> u]
                row == [base EXCEPT !.messages = Append(@, user_msg)]
            IN
            /\ chats' = [chats EXCEPT ![sid] = row]
            /\ nextChat' = IF s = NoSession THEN nextChat + 1 ELSE nextChat
            /\ turns' = [turns EXCEPT ![FreeTurn] =
                           [NoTurn EXCEPT !.pc = "gen_start", !.user = u, !.sid = sid,
                                          !.chat_owner = row.user_id,
                                          !.adapter = NewAdapter(p)]]
            /\ chatResp' = Response("chat", u, sid, 200, 0)
    /\ UNCHANGED <<stream, authVars, docVars, adminVars, svcVars>>

\* generate(): the two opening frames.
GenStart(t) ==
    /\ turns[t].pc = "gen_start"
    /\ turns' = [turns EXCEPT ![t].pc = "streaming",
                              ![t].sse = @ \o <<"session_id", "user_message_id">>]
    /\ UNCHANGED <<chats, nextChat, chatResp, stream, authVars, docVars, adminVars, svcVars>>

\* generate(): one resumption of the provider stream, relayed to the client.
GenStream(t) ==
    /\ turns[t].pc = "streaming"
    /\ \E a2 \in AdapterNext(turns[t].adapter) :
         LET a == turns[t].adapter
             ev == IF Len(a2.events) > Len(a.events) THEN SubSeq(a2.events, Len(a.events) + 1, Len(a2.events)) ELSE <<>>
             full == IF ev = <<>> THEN turns[t].full_response
                     ELSE IF ev[Len(ev)] = "done" THEN a2.full_content
                     ELSE IF ev[Len(ev)] = "content" THEN turns[t].full_response + 1
                     ELSE turns[t].full_response
         IN turns' = [turns EXCEPT ![t].adapter = a2,
                                   ![t].full_response = full,
                                   ![t].sse = @ \o ev,
                                   ![t].pc = IF a2.pc = "finished" THEN "after_stream" ELSE "streaming"]
    /\ UNCHANGED <<chats, nextChat, chatResp, stream, authVars, docVars, adminVars, svcVars>>

\* generate() after the provider stream ended: save the assistant Message.
\* commitOk: db.session.commit() succeeds; distill: the distilled-context
\* setting is on.
GenPersist(t, commitOk, distill) ==
    /\ turns[t].pc = "after_stream"
    /\ IF turns[t].full_response = 0
       THEN /\ turns' = [turns EXCEPT ![t].pc = "end"]
            /\ UNCHANGED chats
       ELSE IF commitOk /\ ChatExists(turns[t].sid)
       THEN /\ chats' = [chats EXCEPT ![turns[t].sid].messages =
                            Append(@, [role |-> "assistant", by |-> turns[t].user])]
            /\ turns' = [turns EXCEPT ![t].bot_saved = TRUE,
                                      ![t].pc = IF distill THEN "distilling" ELSE "final_yield",
                                      ![t].sse = IF distill THEN @ ELSE Append(@, "bot_message_id")]
       ELSE /\ turns' = [turns EXCEPT ![t].pc = "final_yield", ![t].sse = Append(@, "error")]
            /\ UNCHANGED chats
    /\ UNCHANGED <<nextChat, chatResp, stream, authVars, docVars, adminVars, svcVars>>

\* _generate_distilled_context returns (it swallows its own failures), then
\* the bot_message_id frame is yielded.
GenDistill(t) ==
    /\ turns[t].pc = "distilling"
    /\ turns' = [turns EXCEPT ![t].pc = "final_yield", ![t].sse = Append(@, "bot_message_id")]
    /\ UNCHANGED <<chats, nextChat, chatResp, stream, authVars, docVars, adminVars, svcVars>>

\* The generator is resumed after its last yield and returns.
GenEnd(t) ==
    /\ turns[t].pc = "final_yield"
    /\ turns' = [turns EXCEPT ![t].pc = "end"]
    /\ UNCHANGED <<chats, nextChat, chatResp, stream, authVars, docVars, adminVars, svcVars>>

\* The client goes away while the response is open.  Nothing in generate()
\* looks at the connection; gone remembers whether the provider stream was
\* still running ("streaming") or had ended ("late").
Disconnect(t) ==
    /\ turns[t].pc \in {"gen_start", "streaming", "after_stream", "final_yield"}
    /\ turns[t].gone = "no"
    /\ turns' = [turns EXCEPT ![t].gone = IF turns[t].pc \in {"gen_start", "streaming"}
                                          THEN "streaming" ELSE "late"]
    /\ UNCHANGED <<chats, nextChat, chatResp, stream, authVars, docVars, adminVars, svcVars>>

\* The server fails to write a frame to the closed connection and closes
\* the generator at the yield it waits in.  A write into the socket buffer
\* may still succeed after the client left, so the generator may as well be
\* resumed (the Gen actions stay enabled).
Close(t) ==
    /\ turns[t].gone # "no"
    /\ turns[t].pc \in {"gen_start", "streaming", "after_stream", "final_yield"}
    /\ turns' = [turns EXCEPT ![t].pc = "closed"]
    /\ UNCHANGED <<chats, nextChat, chatResp, stream, authVars, docVars, adminVars, svcVars>>

\* GET /api/history
get_history(u, s) ==
    /\ chatResp' = IF ~ChatExists(s) THEN Response("history", u, s, 404, 0)
                   ELSE IF ~Owns(u, s) THEN Response("history", u, s, 403, 0)
                   ELSE Response("history", u, s, 200, Len(chats[s].messages))
    /\ UNCHANGED <<chats, turns, nextChat, stream, authVars, docVars, adminVars, svcVars>>

\* GET /api/export_chat/<session_id>
export_chat(u, s) ==
    /\ chatResp' = IF ~ChatExists(s) THEN Response("export", u, s, 404, 0)
                   ELSE IF ~Owns(u, s) THEN Response("export", u, s, 403, 0)
                   ELSE Response("export", u, s, 200, Len(chats[s].messages))
    /\ UNCHANGED <<chats, turns, nextChat, stream, authVars, docVars, adminVars, svcVars>>

\* PUT /api/rename_chat/<session_id>
rename_chat(u, s, new_name) ==
    /\ IF ~ChatExists(s)
       THEN /\ chatResp' = Response("rename", u, s, 404, 0)
            /\ UNCHANGED chats
       ELSE IF ~Owns(u, s)
       THEN /\ chatResp' = Response("rename", u, s, 403, 0)
            /\ UNCHANGED chats
       ELSE IF new_name = ""
       THEN /\ chatResp' = Response("rename", u, s, 400, 0)
            /\ UNCHANGED chats
       ELSE /\ chats' = [chats EXCEPT ![s].name = new_name]
            /\ chatResp' = Response("rename", u, s, 200, 0)
    /\ UNCHANGED <<turns, nextChat, stream, authVars, docVars, adminVars, svcVars>>

\* DELETE /api/delete_chat/<session_id>: attachment files, then the Chat
\* row; the cascade removes its Messages and Attachments.
delete_chat(u, s) ==
    /\ IF ~ChatExists(s)
       THEN /\ chatResp' = Response("delete", u, s, 404, 0)
            /\ UNCHANGED chats
       ELSE IF ~Owns(u, s)
       THEN /\ chatResp' = Response("delete", u, s, 403, 0)
            /\ UNCHANGED chats
       ELSE /\ chats' = [chats EXCEPT ![s] = NoChat]
            /\ chatResp' = Response("delete", u, s, 200, 0)
    /\ attachment_files' = IF ChatExists(s) /\ Owns(u, s) THEN attachment_files \ {s} ELSE attachment_files
    /\ UNCHANGED <<turns, nextChat, stream, accounts, authVars, docVars, svcVars>>


\* =====================================================================
\* RAG document pipeline (services/rag_service.py, services/vector_store.py,
\* models/document.py, the /documents routes of routes/chat.py)
\* =====================================================================
DocIds == 1..MaxDocs
RunIds == 1..MaxRuns
NoDocId == 0
NoDoc == [user_id |-> NoUser, status |-> "none", chunk_count |-> 0, error_message |-> ""]
NoRun == [pc |-> "none", via |-> "", doc |-> NoDocId, n |-> 0, chroma_ids |-> {}, outcome |-> "", user |-> NoUser]
NoDocResp == [op |-> "none", doc |-> NoDocId, status |-> 0]

\* What the route answers when process_document has returned its result
\* dict ("success", "failure") or has raised: upload_document answers 201,
\* 400, 500 and reprocess_document 200, 500, 500.
RouteStatus(via, result) ==
    IF via = "upload"
    THEN (IF result = "success" THEN 201 ELSE IF result = "failure" THEN 400 ELSE 500)
    ELSE (IF result = "success" THEN 200 ELSE 500)

\* The response of the request that run r belongs to.
RunResponse(r, result) ==
    [op |-> runs[r].via, doc |-> runs[r].doc, status |-> RouteStatus(runs[r].via, result)]

\* mark_failed and its commit return when the row is there; they raise
\* when it was deleted meanwhile.
FailureResult(d) == IF d \in DocIds /\ documents[d].user_id # NoUser THEN "failure" ELSE "raised"


DocExists(d) == d \in DocIds /\ documents[d].user_id # NoUser

FreeRun == CHOOSE r \in RunIds : runs[r].pc = "none" /\ \A r2 \in RunIds : r2 < r => runs[r2].pc # "none"

\* Document.mark_processing
mark_processing(doc) == [doc EXCEPT !.status = "processing", !.error_message = ""]

\* Document.mark_ready
mark_ready(doc, chunk_count) ==
    [doc EXCEPT !.status = "ready", !.chunk_count = chunk_count, !.error_message = ""]

\* Document.mark_failed
mark_failed(doc, error_message) == [doc EXCEPT !.status = "failed", !.error_message = error_message]

\* RAGService.get_user_document_count
get_user_document_count(u) == Cardinality({d \in DocIds : documents[d].user_id = u})

WrongCanUploadDocument(u) == get_user_document_count(u) <= rag_max_documents_per_user

\* RAGService.can_upload_document (RAG enabled)
can_upload_document(u) == get_user_document_count(u) < rag_max_documents_per_user

\* The vectors of document d in u's collection, as collection.get(where=...) finds them.
VectorsOf(u, d) == {v \in vectors[u] : v.document_id = d}

RowsOf(d) == {c \in chunkRows : c.document_id = d}

\* A process_document call on d begins at position pc.
StartRun(r, d, pc) ==
    [runs EXCEPT ![r] = [NoRun EXCEPT !.pc = pc, !.doc = d,
                                      !.via = IF pc = "start" THEN "upload" ELSE "reprocess"]]

WrongNewDocument(u) == [user_id |-> u, status |-> "processing", chunk_count |-> 0, error_message |-> ""]

\* The Document row save_uploaded_document adds.
NewDocument(u) == [user_id |-> u, status |-> "pending", chunk_count |-> 0, error_message |-> ""]

\* POST /api/documents: save_uploaded_document, up to its commit of the
\* pending Document; process_document follows in the same request.
upload_document(u, supported) ==
    /\ (can_upload_document(u) /\ supported) =>
          (nextDoc <= MaxDocs /\ \E r \in RunIds : runs[r].pc = "none")
    /\ IF can_upload_document(u) /\ supported
       THEN /\ documents' = [documents EXCEPT ![nextDoc] = NewDocument(u)]
            /\ files' = files \cup {nextDoc}
            /\ runs' = StartRun(FreeRun, nextDoc, "start")
            /\ nextDoc' = nextDoc + 1
            /\ UNCHANGED docResp
       ELSE /\ docResp' = [op |-> "upload", doc |-> NoDocId, status |-> 400]
            /\ UNCHANGED <<documents, files, runs, nextDoc>>
    /\ UNCHANGED <<chunkRows, vectors, authVars, chatVars, adminVars, svcVars>>

\* save_uploaded_document in two steps, for uploads that run at the same
\* time on the threaded server.  SaveCheck: can_upload_document and the
\* test of the file type; a refused upload is answered 400.
SaveCheck(r, u, supported) ==
    /\ runs[r].pc = "none"
    /\ IF can_upload_document(u) /\ supported
       THEN /\ runs' = [runs EXCEPT ![r] = [NoRun EXCEPT !.pc = "checked", !.via = "upload", !.user = u]]
            /\ UNCHANGED docResp
       ELSE /\ docResp' = [op |-> "save", doc |-> NoDocId, status |-> 400]
            /\ UNCHANGED runs
    /\ UNCHANGED <<documents, files, nextDoc, chunkRows, vectors, authVars, chatVars, adminVars, svcVars>>

\* SaveCommit: file.save (saved: it succeeds), then the pending Document
\* is added and committed (commitOk).  An exception is caught, the session
\* rolled back and the failure answered 400; status 0 is a save that
\* succeeded, process_document follows.
SaveCommit(r, saved, commitOk) ==
    /\ runs[r].pc = "checked"
    /\ nextDoc <= MaxDocs
    /\ runs' = [runs EXCEPT ![r] = NoRun]
    /\ files' = IF saved THEN files \cup {nextDoc} ELSE files
    /\ nextDoc' = IF saved THEN nextDoc + 1 ELSE nextDoc
    /\ documents' = IF saved /\ commitOk
                    THEN [documents EXCEPT ![nextDoc] = NewDocument(runs[r].user)]
                    ELSE documents
    /\ docResp' = IF saved /\ commitOk
                  THEN [op |-> "save", doc |-> nextDoc, status |-> 0]
                  ELSE [op |-> "save", doc |-> NoDocId, status |-> 400]
    /\ UNCHANGED <<chunkRows, vectors, authVars, chatVars, adminVars, svcVars>>

\* process_document called by upload_and_process: the lookup, then
\* mark_processing and its commit.
ProcessStart(r) ==
    /\ runs[r].pc = "start"
    /\ IF DocExists(runs[r].doc)
       THEN /\ documents' = [documents EXCEPT ![runs[r].doc] = mark_processing(@)]
            /\ runs' = [runs EXCEPT ![r].pc = "extract"]
            /\ UNCHANGED docResp
       ELSE /\ runs' = [runs EXCEPT ![r].pc = "done", ![r].outcome = "not_found"]
            /\ docResp' = RunResponse(r, "failure")
            /\ UNCHANGED documents
    /\ UNCHANGED <<chunkRows, vectors, files, nextDoc, authVars, chatVars, adminVars, svcVars>>

\* POST /api/documents/<id>/reprocess: ownership, then process_document up
\* to the commit of mark_processing.
reprocess_document(u, d) ==
    /\ \E r \in RunIds : runs[r].pc = "none"
    /\ DocExists(d)
    /\ IF documents[d].user_id = u
       THEN /\ documents' = [documents EXCEPT ![d] = mark_processing(@)]
            /\ runs' = StartRun(FreeRun, d, "extract")
            /\ UNCHANGED docResp
       ELSE /\ docResp' = [op |-> "reprocess", doc |-> d, status |-> 403]
            /\ UNCHANGED <<documents, runs>>
    /\ UNCHANGED <<chunkRows, vectors, files, nextDoc, authVars, chatVars, adminVars, svcVars>>

ExtractOutcomes == {"ok", "Extraction failed", "No text content", "No chunks created",
                    "Embedding failed", "Embedding count mismatch"}

\* The commit of a failure: the UPDATE finds the row, or the row is gone
\* and the error leaves process_document.
FailDocument(d, msg) ==
    IF DocExists(d) THEN [documents EXCEPT ![d] = mark_failed(@, msg)] ELSE documents

\* process_document steps 1-3: extract, chunk, embed.
ProcessExtract(r, out, n) ==
    /\ runs[r].pc = "extract"
    /\ runs[r].doc \notin files => out = "Extraction failed"
    /\ IF out = "ok"
       THEN /\ runs' = [runs EXCEPT ![r].pc = "store", ![r].n = n]
            /\ UNCHANGED <<documents, docResp>>
       ELSE /\ documents' = FailDocument(runs[r].doc, out)
            /\ runs' = [runs EXCEPT ![r].pc = "done", ![r].outcome = "failed"]
            /\ docResp' = RunResponse(r, FailureResult(runs[r].doc))
    /\ UNCHANGED <<chunkRows, vectors, files, nextDoc, authVars, chatVars, adminVars, svcVars>>

\* VectorStore.add_chunks: one new id per chunk, all added to the owner's collection.
add_chunks(r, u, d) ==
    [vectors EXCEPT ![u] = @ \cup {[id |-> <<r, i>>, document_id |-> d] : i \in 1..runs[r].n}]

\* process_document step 4: store the vectors.
ProcessStore(r, storeOk) ==
    /\ runs[r].pc = "store"
    /\ LET d == runs[r].doc IN
       IF storeOk /\ DocExists(d)
       THEN /\ vectors' = add_chunks(r, documents[d].user_id, d)
            /\ runs' = [runs EXCEPT ![r].pc = "save",
                                    ![r].chroma_ids = {<<r, i>> : i \in 1..runs[r].n}]
            /\ UNCHANGED <<documents, docResp>>
       ELSE /\ documents' = FailDocument(d, "Vector store failed")
            /\ runs' = [runs EXCEPT ![r].pc = "done", ![r].outcome = "failed"]
            /\ docResp' = RunResponse(r, FailureResult(d))
            /\ UNCHANGED vectors
    /\ UNCHANGED <<chunkRows, files, nextDoc, authVars, chatVars, adminVars, svcVars>>

\* The except branch of process_document after the chunk rows could not be
\* committed: mark_failed and commit again, which itself succeeds or raises.
SaveFailed(r, d, failCommitOk) ==
    /\ documents' = IF failCommitOk THEN FailDocument(d, "commit failed") ELSE documents
    /\ UNCHANGED vectors

\* process_document steps 5-6: the DocumentChunk rows and mark_ready, one commit.
ProcessSave(r, commitOk, failCommitOk) ==
    /\ runs[r].pc = "save"
    /\ LET d == runs[r].doc IN
       IF commitOk /\ DocExists(d)
       THEN /\ chunkRows' = chunkRows \cup
                   {[document_id |-> d, chunk_index |-> i - 1, chroma_id |-> <<r, i>>] : i \in 1..runs[r].n}
            /\ documents' = [documents EXCEPT ![d] = mark_ready(@, runs[r].n)]
            /\ runs' = [runs EXCEPT ![r].pc = "done", ![r].outcome = "ready"]
            /\ docResp' = RunResponse(r, "success")
            /\ UNCHANGED vectors
       ELSE /\ SaveFailed(r, d, failCommitOk)
            /\ runs' = [runs EXCEPT ![r].pc = "done", ![r].outcome = "save_failed"]
            /\ docResp' = RunResponse(r, IF failCommitOk THEN FailureResult(d) ELSE "raised")
            /\ UNCHANGED chunkRows
    /\ UNCHANGED <<files, nextDoc, authVars, chatVars, adminVars, svcVars>>

\* DELETE /api/documents/<id>: ownership, then RAGService.delete_document:
\* VectorStore.delete_document, whose result is not looked at (vectorsOk:
\* the store removed the vectors); the file; the delete of the row with
\* (cascade) its chunk rows and the commit (commitOk), rolled back and
\* answered 500 when it fails.
delete_document(u, d, vectorsOk, commitOk) ==
    /\ DocExists(d)
    /\ IF documents[d].user_id = u
       THEN /\ vectors' = IF vectorsOk THEN [vectors EXCEPT ![u] = @ \ VectorsOf(u, d)] ELSE vectors
            /\ files' = files \ {d}
            /\ documents' = IF commitOk THEN [documents EXCEPT ![d] = NoDoc] ELSE documents
            /\ chunkRows' = IF commitOk THEN chunkRows \ RowsOf(d) ELSE chunkRows
            /\ docResp' = [op |-> "delete", doc |-> d, status |-> IF commitOk THEN 200 ELSE 500]
       ELSE /\ docResp' = [op |-> "delete", doc |-> d, status |-> 403]
            /\ UNCHANGED <<vectors, files, documents, chunkRows>>
    /\ UNCHANGED <<runs, nextDoc, authVars, chatVars, adminVars, svcVars>>

\* =====================================================================
\* User administration (routes/main.py)
\* =====================================================================
\* The account holding the super_admin role.
super_admin == 1

\* DELETE /api/admin/users/<user_id> by account a.  The attachment paths of
\* the user's chats are collected, the User row is deleted and committed
\* (the ORM cascade deletes the Chats with their Messages and Attachments
\* and the Documents with their DocumentChunks), then the collected
\* attachment files are removed.  The handler touches neither the stored
\* document files nor the vector store.
delete_user(a, u) ==
    /\ a \in accounts
    /\ IF a # super_admin \/ u = a \/ u \notin accounts
       THEN UNCHANGED <<accounts, chats, documents, chunkRows, attachment_files>>
       ELSE /\ accounts' = accounts \ {u}
            /\ chats' = [s \in SessionIds |-> IF chats[s].user_id = u THEN NoChat ELSE chats[s]]
            /\ documents' = [d \in DocIds |-> IF documents[d].user_id = u THEN NoDoc ELSE documents[d]]
            /\ chunkRows' = {c \in chunkRows : documents[c.document_id].user_id # u}
            /\ attachment_files' = {s \in attachment_files : chats[s].user_id # u}
    /\ UNCHANGED <<vectors, files, runs, docResp, nextDoc, turns, nextChat, chatResp, stream, authVars, svcVars>>

\* =====================================================================
\* Sensitive information filter (services/sensitive_info_filter.py)
\* =====================================================================
\* A text is a sequence of characters.  The texts explored are made of the
\* pieces in Atoms; of the PATTERNS only password_assignment, credit_card
\* and ssn can match a text made of these characters and of the replacement
\* markers, so filter_text applies these three, in the order of PATTERNS.
PASSWORD_REDACTED == <<"[", "P", "A", "S", "S", "W", "O", "R", "D", "_", "R", "E", "D", "A", "C", "T", "E", "D", "]">>
CARD_REDACTED == <<"[", "C", "A", "R", "D", "_", "R", "E", "D", "A", "C", "T", "E", "D", "]">>
SSN_REDACTED == <<"[", "S", "S", "N", "_", "R", "E", "D", "A", "C", "T", "E", "D", "]">>

\* \d, \s, \w and the quotes of the patterns
IsDigit(c) == c \in {"0", "1", "2", "3", "4", "5", "6", "7", "8", "9"}
IsSpace(c) == c = " "
IsQuote(c) == c \in {"'", "\""}
IsWord(c) == c \notin {" ", "=", ":", "-", "[", "]", "'", "\""}

\* re.IGNORECASE on the letters that occur
Lower(c) ==
    CASE c = "P" -> "p" [] c = "A" -> "a" [] c = "S" -> "s" [] c = "W" -> "w"
      [] c = "O" -> "o" [] c = "R" -> "r" [] c = "D" -> "d" [] c = "E" -> "e"
      [] c = "C" -> "c" [] c = "T" -> "t" [] c = "N" -> "n" [] OTHER -> c

\* \b in front of position i
Boundary(t, i) == (i > 1 /\ IsWord(t[i - 1])) # (i <= Len(t) /\ IsWord(t[i]))

\* \d{n} at position i: the position behind it, or 0 for no match
Digits(t, i, n) ==
    IF i > 0 /\ i + n - 1 <= Len(t) /\ \A k \in i..(i + n - 1) : IsDigit(t[k]) THEN i + n ELSE 0

\* [-\s]? at position i
Sep(t, i) == IF i > 0 /\ i <= Len(t) /\ t[i] \in {"-", " "} THEN i + 1 ELSE i

\* \b([3-6]\d{3}[-\s]?\d{4}[-\s]?\d{4}[-\s]?\d{4})\b
credit_card(t, i) ==
    LET h == IF i <= Len(t) /\ t[i] \in {"3", "4", "5", "6"} THEN Digits(t, i + 1, 3) ELSE 0
        e == Digits(t, Sep(t, Digits(t, Sep(t, Digits(t, Sep(t, h), 4)), 4)), 4)
    IN  IF Boundary(t, i) /\ e > 0 /\ Boundary(t, e) THEN e ELSE 0

\* \b(\d{3}[-\s]?\d{2}[-\s]?\d{4})\b
ssn(t, i) ==
    LET e == Digits(t, Sep(t, Digits(t, Sep(t, Digits(t, i, 3)), 2)), 4)
    IN  IF Boundary(t, i) /\ e > 0 /\ Boundary(t, e) THEN e ELSE 0

RECURSIVE SkipSpaces(_, _)
SkipSpaces(t, i) == IF i <= Len(t) /\ IsSpace(t[i]) THEN SkipSpaces(t, i + 1) ELSE i

\* [^\s"']* from position i, greedy
RECURSIVE RunEnd(_, _)
RunEnd(t, i) == IF i <= Len(t) /\ ~IsSpace(t[i]) /\ ~IsQuote(t[i]) THEN RunEnd(t, i + 1) ELSE i

PasswordLabels == << <<"p", "a", "s", "s", "w", "o", "r", "d">>, <<"p", "a", "s", "s", "w", "d">>, <<"p", "w", "d">> >>

\* (?i)((?:password|passwd|pwd)\s*[:=]\s*["']?)([^\s"']{6,})(["']?) with
\* the label lab at position i: <<start of group 2, end of group 2>>, or
\* <<0, 0>> for no match
PasswordAt(t, i, lab) ==
    IF i + Len(lab) - 1 <= Len(t) /\ \A k \in 1..Len(lab) : Lower(t[i + k - 1]) = lab[k]
    THEN LET a == SkipSpaces(t, i + Len(lab))
         IN  IF a <= Len(t) /\ t[a] \in {":", "="}
             THEN LET q == SkipSpaces(t, a + 1)
                      v == IF q <= Len(t) /\ IsQuote(t[q]) THEN q + 1 ELSE q
                      e == RunEnd(t, v)
                  IN  IF e - v >= 6 THEN <<v, e>> ELSE <<0, 0>>
             ELSE <<0, 0>>
    ELSE <<0, 0>>

password_assignment(t, i) ==
    IF PasswordAt(t, i, PasswordLabels[1])[1] > 0 THEN PasswordAt(t, i, PasswordLabels[1])
    ELSE IF PasswordAt(t, i, PasswordLabels[2])[1] > 0 THEN PasswordAt(t, i, PasswordLabels[2])
    ELSE PasswordAt(t, i, PasswordLabels[3])

\* the end of the match of pattern p at position i, or 0
MatchEnd(p, t, i) ==
    CASE p = "credit_card" -> credit_card(t, i)
      [] p = "ssn" -> ssn(t, i)
      [] p = "password_assignment" -> password_assignment(t, i)[2]

\* re.finditer: the matched strings, leftmost first, not overlapping
RECURSIVE finditer(_, _, _)
finditer(p, t, i) ==
    IF i > Len(t) THEN <<>>
    ELSE IF MatchEnd(p, t, i) > 0
         THEN <<SubSeq(t, i, MatchEnd(p, t, i) - 1)>> \o finditer(p, t, MatchEnd(p, t, i))
         ELSE finditer(p, t, i + 1)

\* str.replace(old, new): every occurrence of old, leftmost first
RECURSIVE replace(_, _, _, _)
replace(t, i, old, new) ==
    IF i > Len(t) THEN <<>>
    ELSE IF i + Len(old) - 1 <= Len(t) /\ SubSeq(t, i, i + Len(old) - 1) = old
         THEN new \o replace(t, i + Len(old), old, new)
         ELSE <<t[i]>> \o replace(t, i + 1, old, new)

\* re.sub of password_assignment: group 2 of every match becomes the marker
RECURSIVE sub_password(_, _)
sub_password(t, i) ==
    IF i > Len(t) THEN <<>>
    ELSE LET m == password_assignment(t, i)
         IN  IF m[1] > 0
             THEN SubSeq(t, i, m[1] - 1) \o PASSWORD_REDACTED \o sub_password(t, m[2])
             ELSE <<t[i]>> \o sub_password(t, i + 1)

\* the loop body of filter_text for a pattern with a callable replacement:
\* one re.sub over the whole text for each match finditer found
RECURSIVE SubEach(_, _)
SubEach(k, t) == IF k = 0 THEN t ELSE SubEach(k - 1, sub_password(t, 1))

\* the loop body for a pattern with a string replacement: the matches were
\* found in the text as it was when the loop began; each matched string is
\* replaced wherever it occurs
RECURSIVE ReplaceEach(_, _, _)
ReplaceEach(ms, t, new) ==
    IF ms = <<>> THEN t ELSE ReplaceEach(Tail(ms), replace(t, 1, Head(ms), new), new)

filter_text(text) ==
    IF text = <<>> THEN text
    ELSE LET t1 == SubEach(Len(finditer("password_assignment", text, 1)), text)
             t2 == ReplaceEach(finditer("credit_card", t1, 1), t1, CARD_REDACTED)
             t3 == ReplaceEach(finditer("ssn", t2, 1), t2, SSN_REDACTED)
         IN  t3

MaxAtoms == 4

\* the pieces of the explored texts: a password label, digit groups, a space
Atoms == { <<"p", "w", "d", "=">>, <<"1", "2", "3", "4", "5">>, <<"6", "7", "8", "9">>, <<" ">> }

RECURSIVE Texts(_)
Texts(n) == IF n = 0 THEN {<<>>} ELSE Texts(n - 1) \cup {t \o a : t \in Texts(n - 1), a \in Atoms}

NoRedaction == [pc |-> "idle", text |-> <<>>, once |-> <<>>, twice |-> <<>>]

\* filter_message on the text
FilterOnce ==
    /\ redaction.pc = "text"
    /\ redaction' = [redaction EXCEPT !.pc = "once", !.once = filter_text(redaction.text)]
    /\ UNCHANGED <<settings, settingResp, chunking, retrieval, authVars, chatVars, docVars, adminVars>>

\* filter_message on its own output
FilterAgain ==
    /\ redaction.pc = "once"
    /\ redaction' = [redaction EXCEPT !.pc = "twice", !.twice = filter_text(redaction.once)]
    /\ UNCHANGED <<settings, settingResp, chunking, retrieval, authVars, chatVars, docVars, adminVars>>

\* =====================================================================
\* Admin settings (models/admin_settings.py)
\* =====================================================================
SettingKeys == {"key1", "key2"}
SettingTypes == {"string", "boolean", "integer", "json"}

\* A Python value: its type and its str().
PyValue(py, r) == [py |-> py, r |-> r]
PyNone == PyValue("NoneType", "None")
PyTrue == PyValue("bool", "True")
PyFalse == PyValue("bool", "False")

\* The representative values of each setting type.
ValuesOf(t) ==
    CASE t = "string" -> {PyValue("str", r) : r \in {"", "abc", "true", "7"}}
      [] t = "boolean" -> {PyTrue, PyFalse}
      [] t = "integer" -> {PyValue("int", r) : r \in {"0", "7"}}
      [] t = "json" -> {PyValue("dict", "{}"), PyValue("dict", "{'a': 1}"), PyValue("list", "[1]"), PyNone}

\* bool(value)
Truthy(v) == v \notin {PyNone, PyFalse, PyValue("int", "0"), PyValue("str", ""), PyValue("dict", "{}")}

\* json.dumps(value)
dumps(v) ==
    CASE v = PyNone -> "null"
      [] v = PyTrue -> "true"
      [] v = PyFalse -> "false"
      [] v.py = "int" -> v.r
      [] v = PyValue("str", "") -> "\"\""
      [] v = PyValue("str", "abc") -> "\"abc\""
      [] v = PyValue("str", "true") -> "\"true\""
      [] v = PyValue("str", "7") -> "\"7\""
      [] v = PyValue("dict", "{}") -> "{}"
      [] v = PyValue("dict", "{'a': 1}") -> "{\"a\": 1}"
      [] v = PyValue("list", "[1]") -> "[1]"

\* json.loads(text), with the {} of get_typed_value for text that is not JSON
loads(text) ==
    CASE text = "null" -> PyNone
      [] text = "true" -> PyTrue
      [] text = "false" -> PyFalse
      [] text \in {"0", "7"} -> PyValue("int", text)
      [] text = "\"\"" -> PyValue("str", "")
      [] text = "\"abc\"" -> PyValue("str", "abc")
      [] text = "\"true\"" -> PyValue("str", "true")
      [] text = "\"7\"" -> PyValue("str", "7")
      [] text = "{}" -> PyValue("dict", "{}")
      [] text = "{\"a\": 1}" -> PyValue("dict", "{'a': 1}")
      [] text = "[1]" -> PyValue("list", "[1]")
      [] OTHER -> PyValue("dict", "{}")

\* str.lower() on the stored texts
lower(text) == CASE text = "True" -> "true" [] text = "False" -> "false" [] OTHER -> text

\* int(text), with the 0 of get_typed_value for text that is no integer
int(text) == IF text \in {"0", "7"} THEN PyValue("int", text) ELSE PyValue("int", "0")

\* An AdminSettings row; setting_value is NULL when is_null.
NoSetting == [setting_type |-> "", is_null |-> TRUE, setting_value |-> ""]

Stored(row, text) == [row EXCEPT !.is_null = FALSE, !.setting_value = text]

\* AdminSettings.set_typed_value
set_typed_value(row, value) ==
    CASE row.setting_type = "boolean" -> Stored(row, IF Truthy(value) THEN "true" ELSE "false")
      [] row.setting_type = "integer" -> Stored(row, value.r)
      [] row.setting_type = "json" -> Stored(row, dumps(value))
      [] OTHER -> IF value = PyNone THEN [row EXCEPT !.is_null = TRUE, !.setting_value = ""]
                  ELSE Stored(row, value.r)

\* AdminSettings.get_typed_value
get_typed_value(row) ==
    IF row.is_null THEN PyNone
    ELSE CASE row.setting_type = "boolean" ->
                 IF lower(row.setting_value) \in {"true", "1", "yes", "on"} THEN PyTrue ELSE PyFalse
           [] row.setting_type = "integer" -> int(row.setting_value)
           [] row.setting_type = "json" -> loads(row.setting_value)
           [] OTHER -> PyValue("str", row.setting_value)

NoSettingResp == [op |-> "none", key |-> "", existed |-> FALSE, setting_type |-> "", value |-> PyNone, result |-> PyNone]

\* AdminSettings.set_setting(key, value, setting_type): the row found by
\* key, or a new row of the given type; set_typed_value; commit.
set_setting(key, value, setting_type) ==
    /\ LET existing == settings[key]
           setting == IF existing = NoSetting THEN [NoSetting EXCEPT !.setting_type = setting_type]
                      ELSE existing
       IN  /\ settings' = [settings EXCEPT ![key] = set_typed_value(setting, value)]
           /\ settingResp' = [op |-> "set", key |-> key, existed |-> existing # NoSetting,
                              setting_type |-> setting_type, value |-> value, result |-> PyNone]
    /\ UNCHANGED <<redaction, chunking, retrieval, authVars, chatVars, docVars, adminVars>>

\* AdminSettings.get_setting(key), default None.  The response keeps the
\* arguments of the set_setting call it follows.
get_setting(key) ==
    /\ settingResp.op = "set"
    /\ settingResp' = [settingResp EXCEPT
                          !.op = IF settingResp.key = key THEN "get_after_set" ELSE "get",
                          !.key = key,
                          !.result = IF settings[key] # NoSetting THEN get_typed_value(settings[key])
                                     ELSE PyNone]
    /\ UNCHANGED <<settings, redaction, chunking, retrieval, authVars, chatVars, docVars, adminVars>>

\* =====================================================================
\* Chunker (services/chunking_service.py)
\* =====================================================================
CHARS_PER_TOKEN == 4
DEFAULT_MIN_CHUNK_SIZE == 50

\* A word is its length in characters, a sentence its words, a text the
\* sentences _split_into_sentences finds in it.
\* len(' '.join(items)) for items of the given lengths
RECURSIVE JoinLen(_)
JoinLen(lens) ==
    IF lens = <<>> THEN 0
    ELSE IF Len(lens) = 1 THEN lens[1]
    ELSE lens[1] + 1 + JoinLen(Tail(lens))

\* _count_tokens without tiktoken: the character-based estimate
count_tokens(chars) == chars \div CHARS_PER_TOKEN

\* A chunk: its token_count, the length of its content, and the content as
\* the items first..last joined by ' ': sentences of the text, or words of
\* sentence number `sentence` for the pieces of a large sentence.
Chunk(token_count, chars, first, last) ==
    [token_count |-> token_count, chars |-> chars, sentence |-> 0, first |-> first, last |-> last]

\* chunks.extend(sub_chunks) with the pieces of sentence s
extend(chunks, sub_chunks, s) ==
    chunks \o [k \in 1..Len(sub_chunks) |-> [sub_chunks[k] EXCEPT !.sentence = s]]

\* The overlap loop: how many of the last items are kept, taking items from
\* the end while their tokens fit into overlap; extra is 1 where the code
\* counts word + ' '.
RECURSIVE OverlapKept(_, _, _, _, _)
OverlapKept(lens, i, overlap_tokens, overlap, extra) ==
    IF i >= 1 /\ overlap_tokens + count_tokens(lens[i] + extra) <= overlap
    THEN OverlapKept(lens, i - 1, overlap_tokens + count_tokens(lens[i] + extra), overlap, extra)
    ELSE [kept |-> SubSeq(lens, i + 1, Len(lens)), tokens |-> overlap_tokens]

\* _split_large_text from word i on
RECURSIVE split_large_text(_, _, _, _, _, _, _)
split_large_text(words, i, chunk_size, overlap, chunks, current_words, current_tokens) ==
    IF i > Len(words)
    THEN IF current_words # <<>>
         THEN Append(chunks, Chunk(current_tokens, JoinLen(current_words), i - Len(current_words), i - 1))
         ELSE chunks
    ELSE LET word_tokens == count_tokens(words[i] + 1)
         IN  IF current_tokens + word_tokens > chunk_size /\ current_words # <<>>
             THEN LET o == OverlapKept(current_words, Len(current_words), 0, overlap, 1)
                  IN  split_large_text(words, i + 1, chunk_size, overlap,
                                       Append(chunks, Chunk(current_tokens, JoinLen(current_words),
                                                            i - Len(current_words), i - 1)),
                                       Append(o.kept, words[i]), o.tokens + word_tokens)
             ELSE split_large_text(words, i + 1, chunk_size, overlap, chunks,
                                   Append(current_words, words[i]), current_tokens + word_tokens)

\* _chunk_text from sentence i on; current_chunk holds sentence lengths
RECURSIVE chunk_text(_, _, _, _, _, _, _)
chunk_text(sentences, i, chunk_size, overlap, chunks, current_chunk, current_tokens) ==
    IF i > Len(sentences)
    THEN IF current_chunk # <<>> /\ count_tokens(JoinLen(current_chunk)) >= DEFAULT_MIN_CHUNK_SIZE
         THEN Append(chunks, Chunk(current_tokens, JoinLen(current_chunk), i - Len(current_chunk), i - 1))
         ELSE chunks
    ELSE LET sentence_tokens == count_tokens(JoinLen(sentences[i]))
             saved == Append(chunks, Chunk(current_tokens, JoinLen(current_chunk), i - Len(current_chunk), i - 1))
         IN  IF sentence_tokens > chunk_size
             THEN chunk_text(sentences, i + 1, chunk_size, overlap,
                             extend(IF current_chunk # <<>> THEN saved ELSE chunks,
                                    split_large_text(sentences[i], 1, chunk_size, overlap, <<>>, <<>>, 0), i),
                             <<>>, 0)
             ELSE IF current_tokens + sentence_tokens > chunk_size /\ current_chunk # <<>>
             THEN LET o == OverlapKept(current_chunk, Len(current_chunk), 0, overlap, 0)
                  IN  chunk_text(sentences, i + 1, chunk_size, overlap, saved,
                                 Append(o.kept, JoinLen(sentences[i])), o.tokens + sentence_tokens)
             ELSE chunk_text(sentences, i + 1, chunk_size, overlap, chunks,
                             Append(current_chunk, JoinLen(sentences[i])), current_tokens + sentence_tokens)

\* chunk_document(text, chunk_size, overlap) without pages
chunk_document(sentences, chunk_size, overlap) ==
    IF sentences = <<>> THEN <<>> ELSE chunk_text(sentences, 1, chunk_size, overlap, <<>>, <<>>, 0)

MaxWords == 2
MaxSentences == 2
WordLens == {2, 210}
ChunkSizes == {2, 60}
Overlaps == {0, 1}

RECURSIVE SeqsUpTo(_, _)
SeqsUpTo(S, n) == IF n = 0 THEN {<<>>} ELSE SeqsUpTo(S, n - 1) \cup {Append(q, x) : q \in SeqsUpTo(S, n - 1), x \in S}

Sentences == SeqsUpTo(WordLens, MaxWords) \ {<<>>}

NoChunking == [pc |-> "idle", sentences |-> <<>>, chunk_size |-> 0, overlap |-> 0, chunks |-> <<>>]

ChunkDocument ==
    /\ chunking.pc = "text"
    /\ chunking' = [chunking EXCEPT !.pc = "done",
                       !.chunks = chunk_document(chunking.sentences, chunking.chunk_size, chunking.overlap)]
    /\ UNCHANGED <<redaction, settings, settingResp, retrieval, authVars, chatVars, docVars, adminVars>>

\* ---------------------------------------------------------------------
\* RAG retrieval of a chat turn (routes/chat.py, services/rag_service.py,
\* services/embedding_service.py)
\* ---------------------------------------------------------------------
\* rag_embedding_model: the admin setting process_document indexes with;
\* available: the embedding providers with an API key; user, the provider
\* the query was embedded with ("" when nothing was searched) and the
\* documents of the chunks handed to the prompt, for the last retrieval.
NoRetrieval ==
    [pc |-> "idle", rag_embedding_model |-> "gemini", available |-> {"gemini"},
     user |-> NoUser, embedding_provider |-> "", chunks |-> {}]

\* The set-ups the stored vectors can come from: the provider of the
\* setting is available, and every vector was indexed with it.
RetrievalSetups ==
    {r \in {[NoRetrieval EXCEPT !.rag_embedding_model = m, !.available = a] :
                m \in {"gemini", "openai"}, a \in SUBSET {"gemini", "openai"}} :
        r.rag_embedding_model \in r.available}

\* is_available(p) is p \in retrieval.available
get_provider_for_model(model_provider) ==
    IF model_provider = "openai" /\ "openai" \in retrieval.available THEN "openai"
    ELSE IF model_provider = "gemini" /\ "gemini" \in retrieval.available THEN "gemini"
    ELSE IF "gemini" \in retrieval.available THEN "gemini"
    ELSE IF "openai" \in retrieval.available THEN "openai"
    ELSE IF "local" \in retrieval.available THEN "local"
    ELSE "gemini"

\* chat(): the retrieval of document context.  Skipped without use_rag, for
\* anthropic and xai, and for a user with no ready document; otherwise the
\* query is embedded with get_provider_for_model(model_provider) and the
\* user's collection is searched: the chunks returned are those of any of
\* its vectors (none when the embedding or the query fails, or nothing is
\* similar enough).
retrieve_context(u, model_provider, use_rag) ==
    LET searched == /\ use_rag
                    /\ model_provider \notin {"anthropic", "xai"}
                    /\ \E d \in DocIds : documents[d].user_id = u /\ documents[d].status = "ready"
    IN
    /\ \E chunks \in IF searched THEN SUBSET {v.document_id : v \in vectors[u]} ELSE {{}} :
          retrieval' = [retrieval EXCEPT !.pc = "done", !.user = u, !.chunks = chunks,
                           !.embedding_provider = IF searched THEN get_provider_for_model(model_provider) ELSE ""]
    /\ UNCHANGED <<redaction, settings, settingResp, chunking, authVars, chatVars, docVars, adminVars>>

\* The services at rest.
IdleRedaction == redaction = NoRedaction
IdleSettings == settings = [k \in SettingKeys |-> NoSetting] /\ settingResp = NoSettingResp
IdleChunking == chunking = NoChunking

\* =====================================================================
\* Specifications
\* =====================================================================
InitApp ==
    /\ session_token = [u \in Users |-> NoToken]
    /\ cookie = [d \in Devices |-> NoCookie]
    /\ nextToken = 1
    /\ issued = [u \in Users |-> <<>>]
    /\ lastAuth = [u \in Users |-> "none"]
    /\ resp = [kind |-> "none", dev |-> "devA", user |-> NoUser, endpoint |-> "",
               cookieToken |-> NoToken, storedToken |-> NoToken,
               login_required |-> FALSE, json_or_api |-> FALSE, outcome |-> ""]
    /\ chats = [s \in SessionIds |-> NoChat]
    /\ turns = [t \in TurnIds |-> NoTurn]
    /\ nextChat = 1
    /\ chatResp = Response("none", NoUser, NoSession, 0, 0)
    /\ stream = [a |-> [NewAdapter("other") EXCEPT !.pc = "none"], messages |-> <<>>]
    /\ documents = [d \in DocIds |-> NoDoc]
    /\ chunkRows = {}
    /\ vectors = [u \in Users |-> {}]
    /\ files = {}
    /\ runs = [r \in RunIds |-> NoRun]
    /\ docResp = NoDocResp
    /\ nextDoc = 1
    /\ accounts = Users
    /\ attachment_files = {}

Init == InitApp /\ IdleRedaction /\ IdleSettings /\ IdleChunking /\ retrieval = NoRetrieval

NextAuth ==
    \/ \E d \in Devices, u \in Users, ok \in BOOLEAN : login(d, u, ok)
    \/ \E d \in Devices : logout(d)
    \/ \E d \in Devices, ep \in Endpoints : request(d, ep)

SpecAuth == Init /\ [][NextAuth]_vars

\* The server drops a response whose generator returned or was closed.
\* Nothing reads the record of a finished turn, so the turn actions are
\* explored from the states where finished turns have been dropped.
Release(t) ==
    /\ turns[t].pc \in {"end", "closed"}
    /\ turns' = [turns EXCEPT ![t] = NoTurn]
    /\ UNCHANGED <<chats, nextChat, chatResp, stream, authVars, docVars, adminVars, svcVars>>

Released == \A t \in TurnIds : turns[t].pc \notin {"end", "closed"}

NextChat ==
    \/ \E t \in TurnIds : Release(t)
    \/ /\ Released
       /\ \/ \E u \in Users, s \in SessionIds \cup {NoSession}, empty \in BOOLEAN, p \in ChatProviders :
                chat(u, s, empty, p)
          \/ \E t \in TurnIds : GenStart(t)
          \/ \E t \in TurnIds : GenStream(t)
          \/ \E t \in TurnIds, commitOk \in BOOLEAN, distill \in BOOLEAN : GenPersist(t, commitOk, distill)
          \/ \E t \in TurnIds : GenDistill(t)
          \/ \E t \in TurnIds : GenEnd(t)
          \/ \E t \in TurnIds : Disconnect(t)
          \/ \E t \in TurnIds : Close(t)
          \/ \E u \in Users, s \in SessionIds : delete_chat(u, s)

SpecChat == Init /\ [][NextChat]_vars

\* The chat management endpoints on their own, started from any chat table
\* the chat turns can leave behind: each session id is unused or names a
\* chat of some user holding the messages of whole and half turns, with or
\* without an attachment file.
StoredMessages(u, n) ==
    [i \in 1..n |-> [role |-> IF i % 2 = 1 THEN "user" ELSE "assistant", by |-> u]]

ChatRows ==
    {NoChat} \cup {[user_id |-> u, name |-> "chat", messages |-> StoredMessages(u, n), attachments |-> k] :
                    u \in Users, n \in 1..MaxMsgs, k \in 0..1}

InitManage ==
    /\ session_token = [u \in Users |-> NoToken]
    /\ cookie = [d \in Devices |-> NoCookie]
    /\ nextToken = 1
    /\ issued = [u \in Users |-> <<>>]
    /\ lastAuth = [u \in Users |-> "none"]
    /\ resp = [kind |-> "none", dev |-> "devA", user |-> NoUser, endpoint |-> "",
               cookieToken |-> NoToken, storedToken |-> NoToken,
               login_required |-> FALSE, json_or_api |-> FALSE, outcome |-> ""]
    /\ chats \in [SessionIds -> ChatRows]
    /\ turns = [t \in TurnIds |-> NoTurn]
    /\ nextChat = Cardinality(SessionIds) + 1
    /\ chatResp = Response("none", NoUser, NoSession, 0, 0)
    /\ stream = [a |-> [NewAdapter("other") EXCEPT !.pc = "none"], messages |-> <<>>]
    /\ documents = [d \in DocIds |-> NoDoc]
    /\ chunkRows = {}
    /\ vectors = [u \in Users |-> {}]
    /\ files = {}
    /\ runs = [r \in RunIds |-> NoRun]
    /\ docResp = NoDocResp
    /\ nextDoc = 1
    /\ accounts = Users
    /\ attachment_files = {s \in SessionIds : chats[s].attachments > 0}
    /\ IdleRedaction /\ IdleSettings /\ IdleChunking /\ retrieval = NoRetrieval

NextManage ==
    \/ \E u \in Users, s \in SessionIds : get_history(u, s)
    \/ \E u \in Users, s \in SessionIds : export_chat(u, s)
    \/ \E u \in Users, s \in SessionIds, nm \in {"", "renamed"} : rename_chat(u, s, nm)
    \/ \E u \in Users, s \in SessionIds : delete_chat(u, s)

SpecManage == InitManage /\ [][NextManage]_vars

\* The client has read the response, and the locals of the run that ended
\* are gone.  Responses are explored one at a time: the next request or
\* processing step is taken once the last response was delivered.
Deliver ==
    /\ docResp # NoDocResp
    /\ docResp' = NoDocResp
    /\ runs' = [r \in RunIds |-> IF runs[r].pc = "done" THEN [NoRun EXCEPT !.pc = "done"] ELSE runs[r]]
    /\ UNCHANGED <<documents, chunkRows, vectors, files, nextDoc, authVars, chatVars, adminVars, svcVars>>

NextDocs ==
    \/ Deliver
    \/ /\ docResp = NoDocResp
       /\ \/ \E u \in Users, supported \in BOOLEAN : upload_document(u, supported)
          \/ \E r \in RunIds : ProcessStart(r)
          \/ \E u \in Users, d \in DocIds : reprocess_document(u, d)
          \/ \E r \in RunIds, out \in ExtractOutcomes, n \in 1..MaxChunks : ProcessExtract(r, out, n)
          \/ \E r \in RunIds, ok \in BOOLEAN : ProcessStore(r, ok)
          \/ \E r \in RunIds, ok \in BOOLEAN, fok \in BOOLEAN : ProcessSave(r, ok, fok)
          \/ \E u \in Users, d \in DocIds : delete_document(u, d, TRUE, TRUE)

SpecDocs == Init /\ [][NextDocs]_vars

\* Uploads of the users running at the same time, each split at the point
\* between its quota check and its commit.
NextUpload ==
    \/ \E r \in RunIds, u \in Users, supported \in BOOLEAN : SaveCheck(r, u, supported)
    \/ \E r \in RunIds, saved \in BOOLEAN, commitOk \in BOOLEAN : SaveCommit(r, saved, commitOk)

SpecUpload == Init /\ [][NextUpload]_vars

\* AIService.get_response_stream called on its own: any provider name,
\* with or without RAG context and age prompt.
get_response_stream(p, rag_context, age_system_prompt) ==
    /\ stream.a.pc \in {"none", "finished"}
    /\ stream' = [a |-> NewAdapter(p),
                  messages |-> InjectSystem(<<"history">>, rag_context, age_system_prompt)]
    /\ UNCHANGED <<chats, turns, nextChat, chatResp, authVars, docVars, adminVars, svcVars>>

\* The consumer resumes the generator.
StreamStep ==
    /\ \E a2 \in AdapterNext(stream.a) : stream' = [stream EXCEPT !.a = a2]
    /\ UNCHANGED <<chats, turns, nextChat, chatResp, authVars, docVars, adminVars, svcVars>>

NextStream ==
    \/ \E p \in ProviderNames, rag \in BOOLEAN, age \in BOOLEAN : get_response_stream(p, rag, age)
    \/ StreamStep

SpecStream == Init /\ [][NextStream]_vars


\* User deletion is explored from the databases the chat turns and the
\* document pipeline leave behind when they are at rest: chats with their
\* messages and attachment files, and documents that are ready (one chunk
\* row, one vector) or failed, each with its stored file.
DocRows ==
    {NoDoc} \cup {mark_ready(NewDocument(u), 1) : u \in Users}
            \cup {mark_failed(NewDocument(u), "Extraction failed") : u \in Users}

InitAdmin ==
    /\ session_token = [u \in Users |-> NoToken]
    /\ cookie = [d \in Devices |-> NoCookie]
    /\ nextToken = 1
    /\ issued = [u \in Users |-> <<>>]
    /\ lastAuth = [u \in Users |-> "none"]
    /\ resp = [kind |-> "none", dev |-> "devA", user |-> NoUser, endpoint |-> "",
               cookieToken |-> NoToken, storedToken |-> NoToken,
               login_required |-> FALSE, json_or_api |-> FALSE, outcome |-> ""]
    /\ chats \in [SessionIds -> ChatRows]
    /\ turns = [t \in TurnIds |-> NoTurn]
    /\ nextChat = Cardinality(SessionIds) + 1
    /\ chatResp = Response("none", NoUser, NoSession, 0, 0)
    /\ stream = [a |-> [NewAdapter("other") EXCEPT !.pc = "none"], messages |-> <<>>]
    /\ documents \in [DocIds -> DocRows]
    /\ chunkRows = {[document_id |-> d, chunk_index |-> 0, chroma_id |-> <<d, 1>>] :
                       d \in {x \in DocIds : documents[x].status = "ready"}}
    /\ vectors = [u \in Users |->
                    {[id |-> <<d, 1>>, document_id |-> d] :
                       d \in {x \in DocIds : documents[x].status = "ready" /\ documents[x].user_id = u}}]
    /\ files = {d \in DocIds : documents[d].user_id # NoUser}
    /\ runs = [r \in RunIds |-> NoRun]
    /\ docResp = NoDocResp
    /\ nextDoc = MaxDocs + 1
    /\ accounts = Users
    /\ attachment_files = {s \in SessionIds : chats[s].attachments > 0}
    /\ IdleRedaction /\ IdleSettings /\ IdleChunking
    /\ retrieval \in RetrievalSetups

\* Deletions by an administrator and by the owners, with the vector store
\* and the database commit each succeeding or failing.
NextAdmin ==
    \/ \E a \in Users, u \in Users : delete_user(a, u)
    \/ \E u \in Users, d \in DocIds, vectorsOk \in BOOLEAN, commitOk \in BOOLEAN :
          delete_document(u, d, vectorsOk, commitOk)

SpecAdmin == InitAdmin /\ [][NextAdmin]_vars

\* Retrieval of document context for the chat turns of the users over the
\* stored documents (no chats), with the deletions of the owners.
InitRetrieve == InitAdmin /\ \A s \in SessionIds : chats[s] = NoChat

NextRetrieve ==
    \/ \E u \in Users, model_provider \in {"openai", "gemini", "anthropic"}, use_rag \in BOOLEAN :
          retrieve_context(u, model_provider, use_rag)
    \/ \E u \in Users, d \in DocIds, vectorsOk \in BOOLEAN, commitOk \in BOOLEAN :
          delete_document(u, d, vectorsOk, commitOk)

SpecRetrieve == InitRetrieve /\ [][NextRetrieve]_vars

InitFilter ==
    /\ InitApp /\ IdleSettings /\ IdleChunking /\ retrieval = NoRetrieval
    /\ redaction \in {[NoRedaction EXCEPT !.pc = "text", !.text = t] : t \in Texts(MaxAtoms)}

NextFilter == FilterOnce \/ FilterAgain

SpecFilter == InitFilter /\ [][NextFilter]_vars

InitSettings == InitApp /\ IdleRedaction /\ IdleSettings /\ IdleChunking /\ retrieval = NoRetrieval

NextSettings ==
    \/ \E key \in SettingKeys, t \in SettingTypes : \E value \in ValuesOf(t) : set_setting(key, value, t)
    \/ \E key \in SettingKeys : get_setting(key)

SpecSettings == InitSettings /\ [][NextSettings]_vars

InitChunker ==
    /\ InitApp /\ IdleRedaction /\ IdleSettings /\ retrieval = NoRetrieval
    /\ chunking \in {[NoChunking EXCEPT !.pc = "text", !.sentences = ss, !.chunk_size = cs, !.overlap = ov] :
                        ss \in SeqsUpTo(Sentences, MaxSentences), cs \in ChunkSizes, ov \in Overlaps}

NextChunker == ChunkDocument

SpecChunker == InitChunker /\ [][NextChunker]_vars

\* =====================================================================
\* Properties
\* =====================================================================
Count(seq, e) == Cardinality({i \in 1..Len(seq) : seq[i] = e})

\* C1: a chat turn on an existing chat is processed only for the chat's
\* owner: every user Message of a chat was posted by its owner, and no turn
\* (with its call to the provider) runs for a user who does not own the chat.
C1_TurnOnlyForOwner ==
    /\ \A s \in SessionIds : \A i \in 1..Len(chats[s].messages) :
          chats[s].messages[i].role = "user" => chats[s].messages[i].by = chats[s].user_id
    /\ \A t \in TurnIds : turns[t].pc # "none" => turns[t].user = turns[t].chat_owner

\* C2: a history, export, rename or delete request for an existing chat by a
\* user who does not own it is answered 403, returns none of the chat and
\* leaves every chat row (name, messages, attachments) as it was.
ManageOps == {"history", "export", "rename", "delete"}

C2_OthersRefused ==
    [][ (/\ chatResp'.op \in ManageOps
         /\ ChatExists(chatResp'.sid)
         /\ chats[chatResp'.sid].user_id # chatResp'.user)
        => (/\ chatResp'.status = 403
            /\ chatResp'.returned = 0
            /\ chats' = chats) ]_vars

\* a stored chat with messages and an attachment survives the delete request
\* of the other user, who is answered 403
C2_Witness ==
    /\ chatResp.op = "delete"
    /\ chatResp.status = 403
    /\ ChatExists(chatResp.sid)
    /\ chats[chatResp.sid].user_id # chatResp.user
    /\ Len(chats[chatResp.sid].messages) > 1
    /\ chats[chatResp.sid].attachments > 0

\* C3: a request of a logged-in session whose cookie token is not the user's
\* stored token, on any login-protected endpoint, is answered by the hook
\* (401 SESSION_INVALIDATED on JSON/API requests, else the redirect to
\* login) and the session of that device is cleared.
C3_StaleTokenRejected ==
    (/\ resp.kind = "request"
     /\ resp.user # NoUser
     /\ resp.storedToken # NoToken
     /\ resp.cookieToken # resp.storedToken
     /\ resp.login_required)
    => /\ resp.outcome = IF resp.json_or_api THEN "401_SESSION_INVALIDATED" ELSE "redirect_login"
       /\ cookie[resp.dev] = NoCookie

\* C4: each user has at most one accepted token; it is the one issued by the
\* user's latest successful login, every token issued before it or to
\* anybody else fails validation, and after logout no token validates.
C4_OneAcceptedToken ==
    \A u \in Users :
       /\ Cardinality({t \in Tokens \cup {NoToken} : validate_session_token(u, t)}) <= 1
       /\ \A t \in Tokens \cup {NoToken} :
             validate_session_token(u, t) =>
                /\ lastAuth[u] = "login"
                /\ t = issued[u][Len(issued[u])]
       /\ \A i \in 1..(Len(issued[u]) - 1) : ~validate_session_token(u, issued[u][i])
       /\ \A u2 \in Users \ {u} : \A i \in 1..Len(issued[u2]) : ~validate_session_token(u, issued[u2][i])

\* user 1 logged in twice: device A still holds the first token, which
\* fails validation, while the second one validates; user 2 logged in and
\* out, and none of the tokens validates
C4_Witness ==
    \E u \in Users, u2 \in Users, d \in Devices :
       /\ Len(issued[u]) >= 2
       /\ cookie[d] = [user_id |-> u, session_token |-> issued[u][1]]
       /\ ~validate_session_token(u, issued[u][1])
       /\ validate_session_token(u, issued[u][Len(issued[u])])
       /\ lastAuth[u2] = "logout"
       /\ Len(issued[u2]) >= 1
       /\ \A t \in Tokens : ~validate_session_token(u2, t)

\* C5: a ready Document's chunk_count is the number of its DocumentChunk
\* rows, which is the number of its vectors in the owner's collection.
C5_ReadyCountsAgree ==
    \A d \in DocIds :
       (DocExists(d) /\ documents[d].status = "ready") =>
          /\ documents[d].chunk_count = Cardinality(RowsOf(d))
          /\ Cardinality(RowsOf(d)) = Cardinality(VectorsOf(documents[d].user_id, d))

\* C6: once a run failed to commit its chunk rows, none of the vectors it
\* had added is left in any collection.
C6_SaveFailureRollsBack ==
    \A r \in RunIds :
       runs[r].outcome = "save_failed" =>
          \A u \in Users : \A v \in vectors[u] : v.id \notin runs[r].chroma_ids

\* C7: the status of a Document changes only pending -> processing,
\* processing -> ready, processing -> failed or failed -> processing.
StatusEdges ==
    { <<"pending", "processing">>, <<"processing", "ready">>,
      <<"processing", "failed">>, <<"failed", "processing">> }

C7_OnlyListedTransitions ==
    [][ \A d \in DocIds :
          (/\ documents[d].user_id # NoUser
           /\ documents'[d].user_id # NoUser
           /\ documents'[d].status # documents[d].status)
          => <<documents[d].status, documents'[d].status>> \in StatusEdges ]_vars

\* C8: a Document has DocumentChunk rows exactly when it is ready, and a
\* failed Document has neither rows nor vectors.
C8_RowsIffReady ==
    \A d \in DocIds :
       DocExists(d) =>
          /\ (RowsOf(d) # {}) <=> (documents[d].status = "ready")
          /\ documents[d].status = "failed" =>
                (RowsOf(d) = {} /\ VectorsOf(documents[d].user_id, d) = {})

\* C9: the events of a provider stream hold no terminal event while it
\* runs, and once it has ended exactly one, which is the last event.
TerminalAt(ev) == {i \in 1..Len(ev) : Terminal(ev[i])}

C11_DisconnectDiscards ==
    \A t \in TurnIds :
       turns[t].gone = "streaming" => (~turns[t].bot_saved /\ turns[t].pc # "distilling")

\* C12: no two turns have their streams open on the same chat at the same time
Open(t) == turns[t].pc \in {"gen_start", "streaming", "after_stream", "distilling", "final_yield"}

C12_TurnsSerialized ==
    \A t1 \in TurnIds, t2 \in TurnIds :
       (t1 # t2 /\ Open(t1) /\ Open(t2)) => turns[t1].sid # turns[t2].sid

\* C13: while the distillation call of a turn is running, the assistant
\* Message is committed and the bot_message_id frame has already been sent,
\* so the client does not wait for the call.
C13_DistillationDoesNotBlock ==
    \A t \in TurnIds :
       turns[t].pc = "distilling" =>
          /\ turns[t].bot_saved
          /\ Count(turns[t].sse, "bot_message_id") = 1

\* C14: an upload whose ingestion fails is still answered 201 with the
\* identifier of the created Document, and the failure is recorded on that
\* Document (status failed, a non-empty error_message).
C14_FailedIngestionAnswered201 ==
    (docResp.op = "upload" /\ docResp.doc # NoDocId) =>
       /\ docResp.status = 201
       /\ (documents[docResp.doc].status # "ready" =>
              /\ documents[docResp.doc].status = "failed"
              /\ documents[docResp.doc].error_message # "")
\* The step creates the Document row d.
Created(d) == documents[d].user_id = NoUser /\ documents'[d].user_id # NoUser

AtQuota(u) == get_user_document_count(u) >= rag_max_documents_per_user

C17_UserDeletionCascades ==
    [][ \A u \in Users :
          (u \in accounts /\ u \notin accounts') =>
             /\ \A s \in SessionIds : chats'[s].user_id # u
             /\ \A s \in SessionIds : chats[s].user_id = u => s \notin attachment_files'
             /\ \A d \in DocIds : documents'[d].user_id # u
             /\ \A d \in DocIds : documents[d].user_id = u =>
                   /\ \A c \in chunkRows' : c.document_id # d
                   /\ d \notin files'
             /\ vectors'[u] = {}
      ]_vars
\* C18: the redactor is idempotent: filtering the filtered text returns it
\* unchanged.
C18_FilterIdempotent ==
    redaction.pc = "twice" => redaction.twice = redaction.once

\* Python's ==: True == 1 and False == 0, else the same value.
PyEq(a, b) ==
    LET Num(v) == IF v \in {PyTrue, PyValue("int", "1")} THEN "1"
                  ELSE IF v \in {PyFalse, PyValue("int", "0")} THEN "0" ELSE v.r
    IN  IF a.py \in {"bool", "int"} /\ b.py \in {"bool", "int"} THEN Num(a) = Num(b) ELSE a = b

\* C19: get_setting(k) right after set_setting(k, v, t), with v of type t,
\* returns v, whether or not the key existed before.
C19_SetThenGet ==
    settingResp.op = "get_after_set" => PyEq(settingResp.result, settingResp.value)

\* C20: every chunk has 0 < token_count <= chunk_size + overlap.
C20_ChunkTokenBounds ==
    chunking.pc = "done" =>
       \A k \in 1..Len(chunking.chunks) :
          /\ chunking.chunks[k].token_count > 0
          /\ chunking.chunks[k].token_count <= chunking.chunk_size + chunking.overlap
\* C21: when an age-based safety prompt and RAG context are both present,
\* the list handed to the provider starts with the safety prompt and has
\* the RAG message second, the history after them.
C21_SafetyPromptFirst ==
    (Count(stream.messages, "age_system") > 0 /\ Count(stream.messages, "rag_system") > 0) =>
       /\ stream.messages[1] = "age_system"
       /\ stream.messages[2] = "rag_system"
\* A process_document run between its mark_processing and its end.
Processing(r) == runs[r].pc \in {"extract", "store", "save"}

\* C22: process runs on the same Document are serialized: no two of them
\* are in progress at once, so the vectors stored for a document all come
\* from one run.
C22_RunsSerializedPerDocument ==
    /\ \A r1 \in RunIds, r2 \in RunIds :
          (r1 # r2 /\ Processing(r1) /\ Processing(r2)) => runs[r1].doc # runs[r2].doc
    /\ \A u \in Users : \A v1 \in vectors[u], v2 \in vectors[u] :
          v1.document_id = v2.document_id => v1.id[1] = v2.id[1]
\* C23: a deletion that reports success has removed the chunk rows, the
\* vectors in the owner's collection and the stored file of the document;
\* a deletion that fails leaves the row, its vectors and its file as they
\* were.
C23_DeleteRemovesAll ==
    [][ \A d \in DocIds :
          (docResp'.op = "delete" /\ docResp'.doc = d /\ docResp'.status \in {200, 500}) =>
             IF docResp'.status = 200
             THEN /\ documents'[d] = NoDoc
                  /\ \A c \in chunkRows' : c.document_id # d
                  /\ \A v \in vectors'[documents[d].user_id] : v.document_id # d
                  /\ d \notin files'
             ELSE /\ documents'[d] = documents[d]
                  /\ chunkRows' = chunkRows
                  /\ vectors' = vectors
                  /\ files' = files
      ]_vars
\* Chunk c holds item i: sentence i as a whole (s = 0), or word i of
\* sentence s.
Holds(c, s, i) == c.sentence = s /\ c.first <= i /\ i <= c.last

\* C24: every sentence of the input, and every word of a sentence that was
\* split into pieces, is in at least one emitted chunk.
C24_ChunksCoverInput ==
    chunking.pc = "done" =>
       \A i \in 1..Len(chunking.sentences) :
          \/ \E k \in 1..Len(chunking.chunks) : Holds(chunking.chunks[k], 0, i)
          \/ \A j \in 1..Len(chunking.sentences[i]) :
                \E k \in 1..Len(chunking.chunks) : Holds(chunking.chunks[k], i, j)
\* C25: the assistant Message of a turn is written only when the provider
\* stream of the turn ended with done; a stream that ended with an error
\* event leaves no assistant Message, whatever content was relayed before.
C25_SavedOnlyAfterDone ==
    \A t \in TurnIds :
       turns[t].bot_saved =>
          /\ Count(turns[t].adapter.events, "done") = 1
          /\ Count(turns[t].adapter.events, "error") = 0
\* C26: the logout request of a device whose cookie token is no longer the
\* user's stored token (a later login replaced it) leaves the stored token
\* of the user as it was.
C26_EvictedLogoutHarmless ==
    [][ (/\ resp'.kind = "logout"
         /\ resp'.user # NoUser
         /\ resp'.storedToken # NoToken
         /\ resp'.cookieToken # resp'.storedToken)
        => session_token'[resp'.user] = session_token[resp'.user] ]_vars
\* C27: every chunk a retrieval hands to the prompt of a chat turn is of a
\* document that exists, is owned by the requesting user and is ready.
C27_ContextFromOwnReadyDocuments ==
    [][ (\E u \in Users, model_provider \in {"openai", "gemini", "anthropic"}, use_rag \in BOOLEAN :
            retrieve_context(u, model_provider, use_rag))
        => \A d \in retrieval'.chunks :
              /\ documents[d].user_id = retrieval'.user
              /\ documents[d].status = "ready" ]_vars

\* C28: a retrieval embeds the query with the provider the user's ready
\* documents were indexed with, whatever the chat provider of the turn.
C28_QueryEmbeddedAsIndexed ==
    (retrieval.pc = "done" /\ retrieval.embedding_provider # "") =>
       retrieval.embedding_provider = retrieval.rag_embedding_model
C30_FailedUploadLeavesNothing ==
    [][ (docResp'.op = "save" /\ docResp'.status = 400)
        => (files' = files /\ documents' = documents) ]_vars
====
